---- MODULE Spec2Model ----
(***************************************************************************)
(* A model of watch_multinest: snapshot() of snapshot.py, which parses the *)
(* three MultiNest output files into a dictionary and cross-checks the     *)
(* stopping criteria, and watch() of watch.py, the monitor loop built on   *)
(* it.  The code is Python 2 (map() returns a list, dict.iteritems()).     *)
(*                                                                         *)
(* Numbers.  Every float the code reads or computes is carried in          *)
(* thousandths (milli-units): a log-likelihood of -3.0 is -3000, the       *)
(* threshold 1E-3 of criterion 3 is 1.  delta < tol is evaluated in log    *)
(* space (exp is monotone).  Inf and NegInf stand for float("inf") and     *)
(* for numpy's log(0.0).                                                   *)
(*                                                                         *)
(* Dictionaries are functions whose domain is the set of keys present, so  *)
(* that a lookup of an absent key (KeyError) is visible in the model.      *)
(* The display-only keys (Z, Z_error, ln_Z_error, max_like, expected_like, *)
(* min_chi_squared, delta, ln_expected_delta, expected_delta, gen_live,    *)
(* ellipsoidal, root, n_params, n_like_calls) are left out of the          *)
(* dictionaries; the exceptions their computation can raise are kept.      *)
(***************************************************************************)
EXTENDS Integers, Sequences, FiniteSets, TLC

VARIABLES
    tol,                     \* watch()/snapshot() argument tol (milli-units)
    maxiter,                 \* watch()/snapshot() argument maxiter
    files,                   \* content of the three files when last read
    info,                    \* outcome of the last snapshot() call
    time_data,               \* watch.py:41
    ln_delta_data,           \* watch.py:42
    WAITING,                 \* watch.py:45
    unique_ln_delta_values,  \* watch.py:46
    snap,                    \* watch.py:58, unbound until the first success
    pc,                      \* position of watch(): "loop", "stopped", "crashed"
    n_events,                \* history: number of live.points events handled
    n_ticks,                 \* history: number of other ticks handled (capped)
    observed                 \* history: successful snapshots whose ln_delta
                             \* vector differed from the preceding one's

vars == <<tol, maxiter, files, info, time_data, ln_delta_data, WAITING,
          unique_ln_delta_values, snap, pc, n_events, n_ticks, observed>>

monitor_vars == <<time_data, ln_delta_data, WAITING, unique_ln_delta_values,
                  snap, pc, n_events, n_ticks, observed>>

-----------------------------------------------------------------------------
(* Bounds of the model *)

\* modes declared by the generated resume.dat files: 0..MaxModes
MaxModes == 2

\* live.points events handled by one run of watch()
MaxEvents == 4

\* the history counter of the other ticks stops counting here
MaxTicks == 2

-----------------------------------------------------------------------------
(* Constants of the program *)

\* float("inf"), the default of tol and maxiter
Inf == 1000000000

\* numpy log(0.0)
NegInf == -1000000000

\* n_rejected - n_live > 50
Stop1bMargin == 50

\* ln max_like - ln min_like <= 1E-3, in milli-units
Stop3Threshold == 1

\* unique_ln_delta_values >= 10
WarmupCount == 10

\* resume[:4] / resume[4:]
HeaderRecords == 4

expected_shape == <<1, 4, 2, 1>>

-----------------------------------------------------------------------------
(* Tokens of resume.dat and their conversions *)

\* int(token): the decimal integer tokens the generated files use
IntTable ==
    ("-1" :> -1) @@ ("0" :> 0) @@ ("1" :> 1) @@ ("2" :> 2) @@ ("3" :> 3) @@
    ("5" :> 5) @@ ("55" :> 55) @@ ("56" :> 56)

\* float(token) in milli-units, for the tokens that are no integers
FloatTable ==
    ("-5.0" :> -5000) @@ ("-1.0" :> -1000) @@ ("0.0" :> 0) @@
    ("0.02" :> 20) @@ ("0.5" :> 500) @@ ("1.0" :> 1000)

IsInt(tok) == tok \in DOMAIN IntTable

IntOf(tok) == IntTable[tok]

IsFloat(tok) == tok \in DOMAIN FloatTable \/ tok \in DOMAIN IntTable

FloatOf(tok) ==
    IF tok \in DOMAIN FloatTable THEN FloatTable[tok] ELSE 1000 * IntTable[tok]

_BOOL_STRING(string) == string = "T"

\* numpy log of a non-negative float, both in milli-units
Log(x) ==
    CASE x = 0    -> NegInf
      [] x = 20   -> -3912
      [] x = 100  -> -2303
      [] x = 500  -> -693
      [] x = 1000 -> 0
      [] x = 2000 -> 693
      [] x = 3000 -> 1099
      [] x = 5000 -> 1609
      [] x = 55000 -> 4007
      [] x = 56000 -> 4025
      [] x = Inf  -> Inf

\* float addition with -inf absorbing
LnAdd(a, b) == IF a = NegInf \/ b = NegInf THEN NegInf ELSE a + b

-----------------------------------------------------------------------------
(* The numeric tables: numpy.loadtxt(name, unpack=True)                     *)
(* A table is the sequence of its rows, a row the sequence of its numbers. *)

\* loadtxt raises ValueError when the rows have different numbers of columns
Ragged(rows) ==
    \E i, j \in 1..Len(rows) : Len(rows[i]) # Len(rows[j])

NCols(rows) == Len(rows[1])

\* loadtxt squeezes a one-row or one-column table to a 1-D array
TwoD(rows) == Len(rows) >= 2 /\ NCols(rows) >= 2

\* array.shape[0] after unpack=True
Shape0(rows) ==
    IF rows = <<>> THEN 0
    ELSE IF Len(rows) = 1 THEN NCols(rows)
    ELSE IF NCols(rows) = 1 THEN Len(rows)
    ELSE NCols(rows)

\* phys_live[-2] of a 2-D table: the log-likelihood column
LnLikeColumn(rows) == [i \in 1..Len(rows) |-> rows[i][NCols(rows) - 1]]

\* the selection falling back to all points when no point is in the mode
SelectMode_OrAll(rows, n_mode) ==
    LET mine == SelectSeq(rows, LAMBDA row : row[Len(row)] = n_mode)
        used == IF mine = <<>> THEN rows ELSE mine
    IN  [i \in 1..Len(used) |-> used[i][Len(used[i]) - 1]]

RECURSIVE SelectMode(_, _)
\* phys_live[:, phys_live[-1] == n_mode][-2]
SelectMode(rows, n_mode) ==
    IF rows = <<>> THEN <<>>
    ELSE LET row == Head(rows)
             rest == SelectMode(Tail(rows), n_mode)
         IN  IF row[Len(row)] = n_mode THEN <<row[Len(row) - 1]>> \o rest
             ELSE rest

SeqMax(s) == CHOOSE x \in {s[i] : i \in 1..Len(s)} :
                 \A i \in 1..Len(s) : s[i] <= x

SeqMin(s) == CHOOSE x \in {s[i] : i \in 1..Len(s)} :
                 \A i \in 1..Len(s) : s[i] >= x

-----------------------------------------------------------------------------
(* snapshot(): the state threaded through the parse of resume.dat          *)
(*   rest    modes_resume, the records not yet popped                      *)
(*   total   number of records of resume.dat                              *)
(*   log     history of the pops: which record was read as what           *)

None == "None"

Raise(st, e) == [st EXCEPT !.ok = FALSE, !.error = e]

\* modes_resume.pop(0), recorded in the log
Pop(st, what, m) ==
    [st EXCEPT !.rest = Tail(@),
               !.log = Append(@, [pass |-> what, mode |-> m,
                                  idx |-> st.total - Len(st.rest) + 1,
                                  len |-> Len(Head(st.rest))])]

\* mode[key] = value for the keys of kv
SetMode(st, m, kv) == [st EXCEPT !.modes[m] = kv @@ @]

SetGlobal(st, kv) == [st EXCEPT !.global = kv @@ @]

\* snapshot.py:132-134, the assert on the first 4 records
HeaderShapeOK_Prefix(global_resume) ==
    /\ Len(global_resume) = HeaderRecords
    /\ \A i \in 1..HeaderRecords : Len(global_resume[i]) >= expected_shape[i]

HeaderShapeOK(global_resume) ==
    expected_shape = [i \in 1..Len(global_resume) |-> Len(global_resume[i])]

\* snapshot.py:187-203, one iteration of the first loop
ReadBranch(st, m) ==
    IF st.rest = <<>> THEN Raise(st, "IndexError")
    ELSE
    LET branch_line == Head(st.rest)
        s1 == Pop(st, "branch_number", m)
    IN  IF Len(branch_line) # 1 THEN Raise(s1, "AssertionError")
        ELSE IF ~IsInt(branch_line[1]) THEN Raise(s1, "ValueError")
        ELSE
        LET s2 == SetMode(s1, m, "branch_number" :> IntOf(branch_line[1]))
        IN  IF s2.modes[m]["branch_number"] < 0 THEN Raise(s2, "AssertionError")
            ELSE IF s2.modes[m]["branch_number"] # 0 THEN
                IF s2.rest = <<>> THEN Raise(s2, "IndexError")
                ELSE
                LET line2 == Head(s2.rest)
                    s3 == Pop(s2, "branch_unknown", m)
                IN  IF Len(line2) # 2 THEN Raise(s3, "AssertionError")
                    ELSE SetMode(s3, m, ("branch_unknown_1" :> line2[1]) @@
                                        ("branch_unknown_2" :> line2[2]))
            ELSE SetMode(s2, m, ("branch_unkown_1" :> None) @@
                                ("branch_unkown_2" :> None))

\* snapshot.py:236-237, decided anew for every mode
GuessCeff_EveryMode(global_, modes_resume) ==
    ("ceff" :> (modes_resume # <<>> /\ Len(Head(modes_resume)) = 1)) @@ global_

\* snapshot.py:236-237
GuessCeff(global_, modes_resume) ==
    IF "ceff" \notin DOMAIN global_
    THEN ("ceff" :> (modes_resume # <<>> /\ Len(Head(modes_resume)) = 1)) @@ global_
    ELSE global_

\* snapshot.py:240-245
ReadCeff(st, m) ==
    IF st.global["ceff"] THEN
        IF st.rest = <<>> THEN Raise(st, "IndexError")
        ELSE
        LET mode_line == Head(st.rest)
            s1 == Pop(st, "ceff", m)
        IN  IF Len(mode_line) # 1 THEN Raise(s1, "AssertionError")
            ELSE SetMode(s1, m, "ceff_unknown" :> mode_line[1])
    ELSE st

\* snapshot.py:221-232, the second record of a mode body
ReadBody2(st, m) ==
    IF st.rest = <<>> THEN Raise(st, "IndexError")
    ELSE
    LET mode_line == Head(st.rest)
        s1 == Pop(st, "body2", m)
    IN  IF Len(mode_line) # 3 THEN Raise(s1, "AssertionError")
        ELSE IF ~IsFloat(mode_line[1]) THEN Raise(s1, "ValueError")
        ELSE IF FloatOf(mode_line[1]) < 0 THEN Raise(s1, "AssertionError")
        ELSE IF ~IsFloat(mode_line[2]) \/ ~IsFloat(mode_line[3])
             THEN Raise(s1, "ValueError")
        ELSE SetMode(s1, m, ("vol" :> FloatOf(mode_line[1])) @@
                            ("ln_Z" :> FloatOf(mode_line[2])) @@
                            ("ln_Z_info" :> FloatOf(mode_line[3])))

\* snapshot.py:207-219, the first record of a mode body
ReadBody1(st, m) ==
    IF st.rest = <<>> THEN Raise(st, "IndexError")
    ELSE
    LET mode_line == Head(st.rest)
        s1 == Pop(st, "body1", m)
    IN  IF Len(mode_line) # 4 THEN Raise(s1, "AssertionError")
        ELSE IF ~IsInt(mode_line[4]) THEN Raise(s1, "ValueError")
        ELSE IF IntOf(mode_line[4]) <= 0 THEN Raise(s1, "AssertionError")
        ELSE SetMode(s1, m, ("stop" :> _BOOL_STRING(mode_line[1])) @@
                            ("mode_unknown_1" :> mode_line[2]) @@
                            ("mode_unknown_2" :> mode_line[3]) @@
                            ("n_live" :> IntOf(mode_line[4])))

\* snapshot.py:207-245, one iteration of the second loop
ReadMode(st, m) ==
    LET s1 == ReadBody1(st, m) IN
    IF ~s1.ok THEN s1
    ELSE
    LET s2 == ReadBody2(s1, m) IN
    IF ~s2.ok THEN s2
    ELSE ReadCeff([s2 EXCEPT !.global = GuessCeff(s2.global, s2.rest)], m)

RECURSIVE BranchPass(_, _)
\* snapshot.py:185, for mode in modes.values(): ascending mode number
BranchPass(st, m) ==
    IF ~st.ok \/ m > st.global["n_modes"] THEN st
    ELSE BranchPass(ReadBranch(st, m), m + 1)

RECURSIVE BodyPass(_, _)
\* snapshot.py:205
BodyPass(st, m) ==
    IF ~st.ok \/ m > st.global["n_modes"] THEN st
    ELSE BodyPass(ReadMode(st, m), m + 1)

RECURSIVE SinglePass(_, _)
\* one loop that reads the branch records and the body of each mode in turn
SinglePass(st, m) ==
    IF ~st.ok \/ m > st.global["n_modes"] THEN st
    ELSE LET s1 == ReadBranch(st, m)
         IN  SinglePass(IF s1.ok THEN ReadMode(s1, m) ELSE s1, m + 1)

ReadModes_SinglePass(st) == SinglePass(st, 1)

\* snapshot.py:185-245, the two loops over the modes
ReadModes(st) == BodyPass(BranchPass(st, 1), 1)

\* snapshot.py:248 with the assert dropped
AllParsed_Unchecked(modes_resume) == TRUE

\* snapshot.py:248, assert not modes_resume
AllParsed(modes_resume) == modes_resume = <<>>

\* snapshot.py:296 with the assert dropped
Consistent_Unchecked(mode, stop) == TRUE

\* snapshot.py:296, assert mode["stop"] == stop
Consistent(mode, stop) == mode["stop"] = stop

\* snapshot.py:270-296, one iteration of the third loop
ModeCalc(st, rows, n_mode) ==
    LET mode == st.modes[n_mode]
        mode_ln_like == SelectMode(rows, n_mode)
    IN
    IF mode_ln_like = <<>> THEN Raise(st, "ValueError")
    ELSE
    LET ln_max_like == SeqMax(mode_ln_like)
        ln_min_like == SeqMin(mode_ln_like)
        ln_delta == LnAdd(LnAdd(Log(mode["vol"]), ln_max_like), - mode["ln_Z"])
        stop_1a == ln_delta < st.global["ln_tol"]
        stop_1b == st.global["stop_1b"]
        stop_1 == stop_1a /\ stop_1b
        stop_2 == mode["n_live"] < st.global["n_dims"] + 1
        stop_3 == ln_max_like - ln_min_like <= Stop3Threshold
        stop_4 == st.global["stop_4"]
        stop == stop_1 \/ stop_2 \/ stop_3 \/ stop_4
        s1 == SetMode(st, n_mode,
                  ("ln_max_like" :> ln_max_like) @@ ("ln_min_like" :> ln_min_like) @@
                  ("ln_delta" :> ln_delta) @@
                  ("stop_1a" :> stop_1a) @@ ("stop_1b" :> stop_1b) @@
                  ("stop_1" :> stop_1) @@ ("stop_2" :> stop_2) @@
                  ("stop_3" :> stop_3) @@ ("stop_4" :> stop_4))
    IN  IF Consistent(mode, stop) THEN s1 ELSE Raise(s1, "AssertionError")

RECURSIVE ModeCalcs(_, _, _)
\* snapshot.py:267, for n_mode, mode in modes.iteritems()
ModeCalcs(st, rows, n_mode) ==
    IF ~st.ok \/ n_mode > st.global["n_modes"] THEN st
    ELSE ModeCalcs(ModeCalc(st, rows, n_mode), rows, n_mode + 1)

\* all([mode["stop"] for mode in modes.values()])
AllStop(modes) == \A m \in DOMAIN modes : modes[m]["stop"]

\* an exception leaves snapshot(): nothing is returned
Failure(e, log) == [ok |-> FALSE, error |-> e, log |-> log]

\* snapshot.py:254-261 with the warning of line 261 raised as an error
GlobalCalc_WarnRaises(st) ==
    IF st.global["n_live"] = 0 THEN Raise(st, "ZeroDivisionError")
    ELSE IF /\ AllStop(st.modes)
            /\ ~(st.global["n_rejected"] - st.global["n_live"] > Stop1bMargin)
         THEN Raise(st, "UserWarning")
    ELSE SetGlobal(st,
             ("stop_1b" :> (st.global["n_rejected"] - st.global["n_live"] > Stop1bMargin)) @@
             ("stop_4" :> (st.global["n_rejected"] >= st.global["maxiter"])) @@
             ("stop" :> AllStop(st.modes)))

\* snapshot.py:254-261, the extra global calculations
GlobalCalc(st) ==
    IF st.global["n_live"] = 0 THEN Raise(st, "ZeroDivisionError")
    ELSE SetGlobal(st,
             ("stop_1b" :> (st.global["n_rejected"] - st.global["n_live"] > Stop1bMargin)) @@
             ("stop_4" :> (st.global["n_rejected"] >= st.global["maxiter"])) @@
             ("stop" :> AllStop(st.modes)))

\* snapshot.py:152-177, the global header
ReadHeader(global_, global_resume) ==
    LET counts == global_resume[2]
        evidence == global_resume[3]
    IN  IF \E i \in 1..4 : ~IsInt(counts[i]) THEN Failure("ValueError", <<>>)
        ELSE IF \E i \in 1..4 : IntOf(counts[i]) < 0
             THEN Failure("AssertionError", <<>>)
        ELSE IF ~IsFloat(evidence[1]) \/ ~IsFloat(evidence[2])
             THEN Failure("ValueError", <<>>)
        ELSE [ok |-> TRUE,
              global |-> ("n_rejected" :> IntOf(counts[1])) @@
                         ("n_modes" :> IntOf(counts[3])) @@
                         ("n_live" :> IntOf(counts[4])) @@
                         ("ln_Z" :> FloatOf(evidence[1])) @@
                         ("ln_Z_info" :> FloatOf(evidence[2])) @@ global_]

\* snapshot.py:92-303
snapshot(f, tol_, maxiter_) ==
    IF tol_ <= 0 \/ maxiter_ <= 0 THEN Failure("AssertionError", <<>>)
    ELSE IF ~f.resume.exists \/ ~f.phys_live.exists \/ ~f.live.exists
         THEN Failure("AssertionError", <<>>)
    ELSE IF Ragged(f.phys_live.rows) \/ Ragged(f.live.rows)
         THEN Failure("ValueError", <<>>)
    ELSE
    LET resume == f.resume.lines
        global_resume == SubSeq(resume, 1, IF Len(resume) < HeaderRecords
                                           THEN Len(resume) ELSE HeaderRecords)
        modes_resume == SubSeq(resume, HeaderRecords + 1, Len(resume))
        phys_live == f.phys_live.rows
    IN
    IF ~HeaderShapeOK(global_resume) THEN Failure("AssertionError", <<>>)
    ELSE IF ~TwoD(phys_live)
         THEN Failure(IF Shape0(phys_live) < 2 THEN "IndexError" ELSE "TypeError", <<>>)
    ELSE
    LET g0 == ("tol" :> tol_) @@ ("ln_tol" :> Log(tol_)) @@ ("maxiter" :> maxiter_) @@
              ("ln_max_like" :> SeqMax(LnLikeColumn(phys_live))) @@
              ("n_dims" :> Shape0(f.live.rows) - 1)
        h == ReadHeader(g0, global_resume)
    IN
    IF ~h.ok THEN h
    ELSE
    LET st0 == [ok |-> TRUE, error |-> "", rest |-> modes_resume,
                total |-> Len(resume), log |-> <<>>, global |-> h.global,
                modes |-> [m \in 1..h.global["n_modes"] |-> ("mode" :> m)]]
        s1 == ReadModes(st0)
    IN
    IF ~s1.ok THEN Failure(s1.error, s1.log)
    ELSE IF ~AllParsed(s1.rest) THEN Failure("AssertionError", s1.log)
    ELSE
    LET s2 == GlobalCalc(s1) IN
    IF ~s2.ok THEN Failure(s2.error, s2.log)
    ELSE
    LET s3 == ModeCalcs(s2, phys_live, 1) IN
    IF ~s3.ok THEN Failure(s3.error, s3.log)
    ELSE [ok |-> TRUE, error |-> "", log |-> s3.log,
          global |-> s3.global, modes |-> s3.modes]

-----------------------------------------------------------------------------
(* The files MultiNest writes: the inputs the model draws from            *)

File(lines) == [exists |-> TRUE, lines |-> lines]

Table(rows) == [exists |-> TRUE, rows |-> rows]

Missing == [exists |-> FALSE, lines |-> <<>>, rows |-> <<>>]

\* the decimal token of a small natural number
Tok(n) == CHOOSE t \in DOMAIN IntTable : IntTable[t] = n

RECURSIVE Concat(_, _, _)
\* part[lo] \o ... \o part[hi]
Concat(part, lo, hi) ==
    IF lo > hi THEN <<>> ELSE part[lo] \o Concat(part, lo + 1, hi)

\* the 4 header records: gen_live; n_rejected n_like_calls n_modes n_live;
\* ln_Z ln_Z_info; ellipsoidal
HeaderRecs(n_rejected, n, n_live) ==
    << <<"T">>, <<n_rejected, "5", Tok(n), n_live>>, <<"-1.0", "0.02">>, <<"F">> >>

BranchRecs(branch_number) ==
    IF branch_number = "0" THEN << <<"0">> >>
    ELSE << <<branch_number>>, <<"a", "b">> >>

BodyRecs(stop, n_live, vol, ln_Z, ceff) ==
    << <<stop, "x", "y", n_live>>, <<vol, ln_Z, "0.02">> >>
    \o (IF ceff THEN << <<"0">> >> ELSE <<>>)

\* resume.dat as MultiNest lays it out: all branch records, then all bodies
TwoPassLayout(head, branch, body, n) ==
    head \o Concat(branch, 1, n) \o Concat(body, 1, n)

\* resume.dat with each mode's branch records next to its body
InterleavedLayout(head, branch, body, n) ==
    head \o Concat([m \in 1..n |-> branch[m] \o body[m]], 1, n)

\* phys_live.points: two points per mode 1..n (at least mode 1), columns
\* parameter, log-likelihood, mode; spread separates the two likelihoods
PhysRows(n, spread) ==
    Concat([m \in 1..(IF n = 0 THEN 1 ELSE n) |->
               << <<0, -3000, m>>, <<0, -3000 - spread, m>> >>],
           1, IF n = 0 THEN 1 ELSE n)

\* live.points: two points, columns 2 parameters and the mode
LiveRows == << <<0, 0, 1>>, <<0, 0, 1>> >>

Triplet(lines, n, spread) ==
    [resume |-> File(lines), phys_live |-> Table(PhysRows(n, spread)),
     live |-> Table(LiveRows)]

\* well-formed files with n modes, over the values that decide the criteria
ValueFilesOf(n) ==
    { Triplet(TwoPassLayout(HeaderRecs(n_rejected, n, "5"),
                            [m \in 1..n |-> BranchRecs("0")],
                            [m \in 1..n |-> BodyRecs(stop[m], n_live[m], "1.0",
                                                     ln_Z[m], FALSE)], n),
              n, spread) :
        n_rejected \in {"55", "56"},
        spread \in {0, 1, 2},
        stop \in [1..n -> {"T", "F"}],
        n_live \in [1..n -> {"2", "3"}],
        ln_Z \in [1..n -> {"0.0", "-1.0"}] }

ValueFiles == UNION {ValueFilesOf(n) : n \in 0..MaxModes}

\* resume.dat over the optional records, in both layouts; every mode
\* declares stop = T with 2 live points, which criterion 2 confirms
LayoutsOf(n) ==
    { layout :
        layout \in UNION {
            LET head == HeaderRecs("55", n, "5")
                branch == [m \in 1..n |-> BranchRecs(branch_number[m])]
                body == [m \in 1..n |-> BodyRecs("T", "2", "1.0", "0.0", ceff)]
            IN  {TwoPassLayout(head, branch, body, n),
                 InterleavedLayout(head, branch, body, n)} :
            branch_number \in [1..n -> {"0", "3"}], ceff \in BOOLEAN } }

\* what a writer caught half-way, or a change of format, does to resume.dat
Edits(lines) ==
    {lines}
    \cup {SubSeq(lines, 1, k) : k \in 0..Len(lines)}
    \cup {SubSeq(lines, 1, i - 1) \o SubSeq(lines, i + 1, Len(lines)) :
             i \in 1..Len(lines)}
    \cup {SubSeq(lines, 1, i - 1) \o <<rec>> \o SubSeq(lines, i, Len(lines)) :
             i \in 1..(Len(lines) + 1), rec \in {<<>>, <<"0">>, <<"a", "b">>}}
    \cup {[lines EXCEPT ![i] = Append(@, "x")] : i \in 1..Len(lines)}
    \cup {[lines EXCEPT ![i] = SubSeq(@, 1, Len(@) - 1)] :
             i \in {j \in 1..Len(lines) : lines[j] # <<>>}}

ShapeFiles ==
    UNION { UNION { {Triplet(e, n, 0) : e \in Edits(lines)} :
                       lines \in LayoutsOf(n) } : n \in 0..MaxModes }

\* the numeric tables: missing, empty, one row, one column, ragged, and
\* phys_live.points without a point for the last mode
TableFiles ==
    UNION {
        LET good == Triplet(TwoPassLayout(HeaderRecs("55", n, n_live),
                                [m \in 1..n |-> BranchRecs("0")],
                                [m \in 1..n |-> BodyRecs("T", "2", "1.0", "0.0", FALSE)],
                                n), n, 0)
            rows == good.phys_live.rows
        IN  {good, [good EXCEPT !.resume = Missing]}
            \cup {[good EXCEPT !.phys_live = t] :
                     t \in {Missing, Table(<<>>), Table(<<rows[1]>>),
                            Table(<< <<-3000>>, <<-3000>> >>),
                            Table(Append(rows, <<-3000>>)),
                            Table(SubSeq(rows, 1, Len(rows) - 2))}}
            \cup {[good EXCEPT !.live = t] :
                     t \in {Missing, Table(<<>>), Table(<< <<0, 0, 0, 1>> >>),
                            Table(<< <<0>>, <<0>>, <<0>> >>),
                            Table(<< <<0, 0, 1>>, <<0, 1>> >>)}} :
        n \in 0..MaxModes, n_live \in {"0", "5"} }

\* (tol, maxiter): 0.1 or inf, a cap of 56 iterations or inf
Params == {<<100, Inf>>, <<Inf, Inf>>, <<100, 56>>}

\* arguments snapshot() refuses
BadParams == {<<0, Inf>>, <<100, 0>>}

\* what one call of print_snapshot() may be given
OneShotInputs ==
    (Params \X ValueFiles)
    \cup ({<<100, Inf>>} \X ShapeFiles)
    \cup ((Params \cup BadParams) \X TableFiles)

\* the files the monitored scan leaves on disk at the ticks of watch():
\* none yet, a resume.dat caught half-written, and well-formed triplets
\* whose modes all carry the same body (criteria 1, 3 and 4 are false
\* for them unless tol is inf, criterion 2 holds iff n_live is 2)
WatchFiles ==
    { Triplet(TwoPassLayout(HeaderRecs("55", n, "5"),
                            [m \in 1..n |-> BranchRecs("0")],
                            [m \in 1..n |-> BodyRecs(stop, n_live, "1.0", ln_Z, FALSE)],
                            n), n, 2) :
        n \in 0..MaxModes, stop \in {"T", "F"}, n_live \in {"2", "3"},
        ln_Z \in {"0.0", "-1.0"} }
    \cup {[resume |-> Missing, phys_live |-> Missing, live |-> Missing],
          Triplet(SubSeq(HeaderRecs("55", 1, "5"), 1, 3), 1, 2),
          Triplet(HeaderRecs("55", 1, "5") \o << <<"0">>, <<"T", "x", "y", "2">> >>, 1, 2)}

-----------------------------------------------------------------------------
(* run.py: one call of print_snapshot(), or watch()                         *)

NoSnap == [unbound |-> TRUE]

NoCall == Failure("NoCall", <<>>)

InitMonitor ==
    /\ info = NoCall
    /\ time_data = <<>>
    /\ ln_delta_data = <<>>
    /\ WAITING = TRUE
    /\ unique_ln_delta_values = 0
    /\ snap = NoSnap
    /\ n_events = 0
    /\ n_ticks = 0
    /\ observed = 0

\* run.py:58, print_snapshot(root, tol, maxiter)
InitOneShot ==
    /\ \E x \in OneShotInputs : tol = x[1][1] /\ maxiter = x[1][2] /\ files = x[2]
    /\ pc = "print_snapshot"
    /\ InitMonitor

\* run.py:56 and watch.py:32-49
InitWatch ==
    /\ \E p \in Params : tol = p[1] /\ maxiter = p[2]
    /\ files = [resume |-> Missing, phys_live |-> Missing, live |-> Missing]
    /\ pc = "loop"
    /\ InitMonitor

Init == InitOneShot \/ InitWatch

\* snapshot.py:58-89
PrintSnapshot ==
    /\ pc = "print_snapshot"
    /\ info' = snapshot(files, tol, maxiter)
    /\ pc' = IF info'.ok THEN "printed" ELSE "raised"
    /\ UNCHANGED <<tol, maxiter, files, time_data, ln_delta_data, WAITING,
                   unique_ln_delta_values, snap, n_events, n_ticks, observed>>

\* the value of snap after snap = snapshot(root, tol, maxiter)
SnapOf(r) == [global |-> r.global, modes |-> r.modes]

\* the ln_delta values snapshot.py:282 computes, one per mode
LnDeltaOf(s) == [m \in DOMAIN s.modes |-> s.modes[m]["ln_delta"]]

\* watch.py:65, the key read from every mode
ln_delta_key == "ln_delta_max"

\* watch.py:59-61 with the time stamp recorded before the try
OnSnapshotError_Stamped(snap_time) ==
    /\ time_data' = Append(time_data, snap_time)
    /\ UNCHANGED <<ln_delta_data, WAITING, unique_ln_delta_values, snap, pc,
                   observed>>

\* watch.py:59-61, except Exception: warn and continue
OnSnapshotError(snap_time) ==
    UNCHANGED <<time_data, ln_delta_data, WAITING, unique_ln_delta_values, snap,
                pc, observed>>

\* watch.py:63-75 counting every sample, different from the last or not
Record_CountsEvery(r, snap_time) ==
    /\ snap' = SnapOf(r)
    /\ observed' = IF snap # NoSnap /\ LnDeltaOf(snap) # LnDeltaOf(r)
                   THEN observed + 1 ELSE observed
    /\ time_data' = Append(time_data, snap_time)
    /\ IF \E m \in DOMAIN r.modes : ln_delta_key \notin DOMAIN r.modes[m]
       THEN /\ pc' = "crashed"
            /\ UNCHANGED <<ln_delta_data, WAITING, unique_ln_delta_values>>
       ELSE LET ln_delta == [m \in DOMAIN r.modes |-> r.modes[m][ln_delta_key]]
                data == Append(ln_delta_data, ln_delta)
                count == IF WAITING THEN unique_ln_delta_values + 1
                         ELSE unique_ln_delta_values
            IN  /\ ln_delta_data' = data
                /\ unique_ln_delta_values' = count
                /\ WAITING' = (WAITING /\ ~(count >= WarmupCount))
                /\ pc' = "loop"

\* watch.py:63-75, after a successful snapshot()
Record(r, snap_time) ==
    /\ snap' = SnapOf(r)
    /\ observed' = IF snap # NoSnap /\ LnDeltaOf(snap) # LnDeltaOf(r)
                   THEN observed + 1 ELSE observed
    /\ time_data' = Append(time_data, snap_time)
    /\ IF \E m \in DOMAIN r.modes : ln_delta_key \notin DOMAIN r.modes[m]
       THEN \* KeyError leaves watch()
            /\ pc' = "crashed"
            /\ UNCHANGED <<ln_delta_data, WAITING, unique_ln_delta_values>>
       ELSE LET ln_delta == [m \in DOMAIN r.modes |-> r.modes[m][ln_delta_key]]
                data == Append(ln_delta_data, ln_delta)
                count == IF /\ WAITING
                            /\ Len(data) >= 2
                            /\ data[Len(data) - 1] # data[Len(data)]
                         THEN unique_ln_delta_values + 1
                         ELSE unique_ln_delta_values
            IN  /\ ln_delta_data' = data
                /\ unique_ln_delta_values' = count
                /\ WAITING' = (WAITING /\ ~(count >= WarmupCount))
                /\ pc' = "loop"

\* watch.py:53-75, an event for live.points
LiveEvent ==
    /\ pc = "loop"
    /\ n_events < MaxEvents
    /\ \E f \in WatchFiles :
          LET r == snapshot(f, tol, maxiter)
              snap_time == n_events + 1
          IN  /\ files' = f
              /\ info' = r
              /\ n_events' = n_events + 1
              /\ IF r.ok THEN Record(r, snap_time) ELSE OnSnapshotError(snap_time)
    /\ UNCHANGED <<tol, maxiter, n_ticks>>

\* the modes every recorded vector has a value for: zip(*ln_delta_data)
FitColumns ==
    {m \in 1..MaxModes + 1 : \A i \in 1..Len(ln_delta_data) : m <= Len(ln_delta_data[i])}

\* watch.py:91-107: polyfit refuses x and y of different lengths and
\* non-finite x; timedelta refuses the non-finite estimate poly1d gives at
\* ln(inf), and an estimate beyond its range
PlotRaises(overflow) ==
    /\ ln_delta_data # <<>>
    /\ FitColumns # {}
    /\ \/ Len(time_data) # Len(ln_delta_data)
       \/ \E i \in 1..Len(ln_delta_data), m \in FitColumns : ln_delta_data[i][m] = NegInf
       \/ tol = Inf
       \/ overflow

\* watch.py:82-122, the plot and the check of the last snapshot's stop
PlotAndCheckStop ==
    \E overflow \in BOOLEAN :
        IF PlotRaises(overflow)
        THEN /\ pc' = "crashed"
             /\ UNCHANGED <<tol, maxiter, files, info, time_data, ln_delta_data,
                            WAITING, unique_ln_delta_values, snap, n_events,
                            observed>>
        ELSE IF snap # NoSnap /\ snap.global["stop"]
        THEN \* print_snapshot() reads the files again
             \E f \in WatchFiles :
                /\ files' = f
                /\ info' = snapshot(f, tol, maxiter)
                /\ pc' = IF info'.ok THEN "stopped" ELSE "crashed"
                /\ UNCHANGED <<tol, maxiter, time_data, ln_delta_data, WAITING,
                               unique_ln_delta_values, snap, n_events, observed>>
        ELSE UNCHANGED <<tol, maxiter, files, info, time_data, ln_delta_data,
                         WAITING, unique_ln_delta_values, snap, pc, n_events,
                         observed>>

\* watch.py:77-122 without the test of WAITING at lines 79-80
Tick_NoGate ==
    /\ pc = "loop"
    /\ n_ticks' = IF n_ticks < MaxTicks THEN n_ticks + 1 ELSE n_ticks
    /\ PlotAndCheckStop

\* watch.py:77-122, a timeout of the event generator or an event for
\* another file
Tick ==
    /\ pc = "loop"
    /\ n_ticks' = IF n_ticks < MaxTicks THEN n_ticks + 1 ELSE n_ticks
    /\ IF WAITING
       THEN UNCHANGED <<tol, maxiter, files, info, time_data, ln_delta_data,
                        WAITING, unique_ln_delta_values, snap, pc, n_events,
                        observed>>
       ELSE PlotAndCheckStop

Next == PrintSnapshot \/ LiveEvent \/ Tick

Spec == Init /\ [][Next]_vars

\* idle ticks keep arriving: the event generator times out every 10 s
FairSpec == Spec /\ WF_vars(Tick)

-----------------------------------------------------------------------------
(* Vocabulary of the properties                                            *)

\* a snapshot() call has been made and it returned a snapshot
Returned == info # NoCall /\ info.ok

\* a snapshot() call has been made and it raised
Raised == info # NoCall /\ ~info.ok

Lines == files.resume.lines

NModes == info.global["n_modes"]

BranchKinds == {"branch_number", "branch_unknown"}

\* the global ceff of a returned snapshot, false when the key is absent
CeffOf(r) == "ceff" \in DOMAIN r.global /\ r.global["ceff"]

\* the position in the log of the pop that read `pass` for mode m
LogPos(r, pass, m) ==
    CHOOSE i \in 1..Len(r.log) : r.log[i].pass = pass /\ r.log[i].mode = m

HasLog(r, pass, m) ==
    \E i \in 1..Len(r.log) : r.log[i].pass = pass /\ r.log[i].mode = m

RECURSIVE Rebuild(_, _, _, _)
\* lines from record i on, without the records at `drop` and with a
\* length-1 record added after each record at `add_after`
Rebuild(lines, i, drop, add_after) ==
    IF i > Len(lines) THEN <<>>
    ELSE (IF i \in drop THEN <<>> ELSE <<lines[i]>>)
         \o (IF i \in add_after THEN << <<"0">> >> ELSE <<>>)
         \o Rebuild(lines, i + 1, drop, add_after)

\* the records the parse read for mode m, in the order it read them
RecordsOfMode(lines, log, m) ==
    LET mine == SelectSeq(log, LAMBDA e : e.mode = m)
    IN  [k \in 1..Len(mine) |-> lines[mine[k].idx]]

\* the same records with each mode's branch records next to its body
Interleave(lines, log, n) ==
    SubSeq(lines, 1, HeaderRecords)
    \o Concat([m \in 1..n |-> RecordsOfMode(lines, log, m)], 1, n)

WithResume(lines) == [files EXCEPT !.resume = File(lines)]

\* the state of the monitor's state machine
MonitorState ==
    CASE pc = "crashed" -> "CRASHED"
      [] pc = "stopped" -> "STOPPED"
      [] pc = "loop" /\ WAITING -> "WAITING"
      [] pc = "loop" /\ ~WAITING -> "WARM"
      [] OTHER -> "ONE_SHOT"

\* the step is a live.points event of watch() whose snapshot() returned
EventSucceeded == pc = "loop" /\ n_events' = n_events + 1 /\ info'.ok

\* the step is a live.points event of watch() whose snapshot() raised
EventFailed == pc = "loop" /\ n_events' = n_events + 1 /\ ~info'.ok

-----------------------------------------------------------------------------
(* C1 *)

\* the stop predicate of mode m recomputed from the files and the arguments
RecomputedStop(m) ==
    LET mode == info.modes[m]
        n_rejected == IntOf(Lines[2][1])
        n_live == IntOf(Lines[2][4])
        stop_1b == n_rejected - n_live > 50
        stop_4 == n_rejected >= maxiter
        stop_1 == mode["stop_1a"] /\ stop_1b
        stop_2 == mode["n_live"] < Shape0(files.live.rows)
    IN  stop_1 \/ stop_2 \/ mode["stop_3"] \/ stop_4

\* the stop flag resume.dat declares for mode m: first token of its body
DeclaredStop(m) == Lines[info.log[LogPos(info, "body1", m)].idx][1] = "T"

\* C1: snapshot() returns a snapshot only if, for every mode, the stop flag
\* declared in resume.dat equals stop_1 OR stop_2 OR stop_3 OR stop_4
\* recomputed with stop_1 = stop_1a AND stop_1b, stop_1b = n_rejected -
\* n_live > 50, stop_2 = mode n_live < n_dims + 1, stop_4 = n_rejected >=
\* maxiter; when they differ for some mode, nothing is returned.
C1_StopCrossCheck ==
    Returned => \A m \in 1..NModes : DeclaredStop(m) = RecomputedStop(m)

\* a snapshot was returned for two modes, one declared stopped by
\* criterion 2 alone and one declared running
C1_Witness ==
    /\ Returned
    /\ NModes >= 2
    /\ \E m1, m2 \in 1..NModes :
          /\ DeclaredStop(m1) /\ info.modes[m1]["stop_2"]
          /\ ~info.modes[m1]["stop_1"] /\ ~info.modes[m1]["stop_3"]
          /\ ~DeclaredStop(m2)

-----------------------------------------------------------------------------
(* C5 *)

GoodHeader ==
    /\ Len(Lines) >= 4
    /\ \A i \in 1..4 : Len(Lines[i]) = <<1, 4, 2, 1>>[i]

\* C5: unless resume.dat has at least 4 records whose token counts are
\* exactly 1, 4, 2, 1, every snapshot() call fails: no mode record is
\* consumed and no snapshot is returned.
C5_HeaderShape ==
    (info # NoCall /\ ~GoodHeader) => (~info.ok /\ info.log = <<>>)

\* a call failed on a resume.dat whose header has the token counts 1, 4, 2, 0
\* while all three files exist and the arguments are valid
C5_Witness ==
    /\ Raised
    /\ tol > 0 /\ maxiter > 0
    /\ files.phys_live.exists /\ files.live.exists
    /\ Len(Lines) > 4
    /\ \A i \in 1..4 : Len(Lines[i]) = <<1, 4, 2, 0>>[i]

-----------------------------------------------------------------------------
(* C6 *)

\* C6: for every returned snapshot the records after the 4 header records
\* are consumed exactly, one pop each and in file order, and their number is
\* n_modes + (modes with branch_number > 0) + n_modes * (2 + (1 if ceff)).
C6_StreamConsumedExactly ==
    Returned =>
        /\ Len(Lines) - 4 =
              NModes
              + Cardinality({m \in 1..NModes : info.modes[m]["branch_number"] > 0})
              + NModes * (2 + (IF CeffOf(info) THEN 1 ELSE 0))
        /\ Len(info.log) = Len(Lines) - 4
        /\ \A k \in 1..Len(info.log) : info.log[k].idx = 4 + k

\* a call failed only because records were left over: every mode was read
\* and resume.dat cut after the last record read is accepted
C6_Witness ==
    /\ Raised
    /\ GoodHeader
    /\ info.log # <<>>
    /\ Len(Lines) > 4 + Len(info.log)
    /\ snapshot(WithResume(SubSeq(Lines, 1, 4 + Len(info.log))), tol, maxiter).ok

-----------------------------------------------------------------------------
(* C7 *)

\* the record index right after the two body records of the first mode
AfterFirstBody == info.log[LogPos(info, "body2", 1)].idx + 1

\* resume.dat without the records read as ceff records
WithoutCeffRecords ==
    Rebuild(Lines, 1, {info.log[k].idx : k \in {j \in 1..Len(info.log) :
                                               info.log[j].pass = "ceff"}}, {})

\* resume.dat with a length-1 record added after each mode body
WithCeffRecords ==
    Rebuild(Lines, 1, {}, {info.log[k].idx : k \in {j \in 1..Len(info.log) :
                                                  info.log[j].pass = "body2"}})

\* C7: in a returned snapshot with at least one mode, ceff is true iff a
\* record follows the two body records of the first mode and has exactly 1
\* token; then every mode consumed one extra length-1 record and carries
\* ceff_unknown, else no mode did; and the same file without (with) a
\* length-1 record after each mode body is parsed with ceff false (true).
C7_CeffDetection ==
    (Returned /\ NModes >= 1) =>
        /\ "ceff" \in DOMAIN info.global
        /\ info.global["ceff"] =
              (Len(Lines) >= AfterFirstBody /\ Len(Lines[AfterFirstBody]) = 1)
        /\ \A m \in 1..NModes :
              /\ ("ceff_unknown" \in DOMAIN info.modes[m]) = info.global["ceff"]
              /\ HasLog(info, "ceff", m) = info.global["ceff"]
              /\ HasLog(info, "ceff", m) =>
                    /\ info.log[LogPos(info, "ceff", m)].len = 1
                    /\ LogPos(info, "ceff", m) = LogPos(info, "body2", m) + 1
        /\ LET other == snapshot(WithResume(IF info.global["ceff"]
                                            THEN WithoutCeffRecords
                                            ELSE WithCeffRecords), tol, maxiter)
           IN  /\ other.ok
               /\ other.global["ceff"] = ~info.global["ceff"]
               /\ Len(other.log) =
                     Len(info.log) + (IF info.global["ceff"] THEN - NModes ELSE NModes)

\* a snapshot of two modes was returned with ceff true
C7_Witness ==
    /\ Returned
    /\ NModes >= 2
    /\ CeffOf(info)
    /\ \A m \in 1..NModes : "ceff_unknown" \in DOMAIN info.modes[m]

-----------------------------------------------------------------------------
(* C8 *)

\* C8: in a returned snapshot the branch records of all modes, in ascending
\* mode number, were read before any body record; the k-th body of the
\* file (a length-4 record, then a length-3 record) went to mode k; and the
\* same records interleaved mode by mode are rejected when n_modes >= 2.
C8_TwoPasses ==
    Returned =>
        /\ \A i, j \in 1..Len(info.log) :
              (i < j /\ info.log[j].pass \in BranchKinds) =>
                  /\ info.log[i].pass \in BranchKinds
                  /\ info.log[i].mode <= info.log[j].mode
        /\ \A m \in 1..NModes :
              /\ HasLog(info, "branch_number", m)
              /\ info.log[LogPos(info, "branch_number", m)].len = 1
              /\ HasLog(info, "branch_unknown", m) = (info.modes[m]["branch_number"] > 0)
              /\ HasLog(info, "body1", m) /\ HasLog(info, "body2", m)
              /\ LET b1 == LogPos(info, "body1", m)
                     b2 == LogPos(info, "body2", m)
                 IN  /\ b2 = b1 + 1
                     /\ info.log[b1].len = 4 /\ info.log[b2].len = 3
                     /\ Cardinality({i \in 1..Len(info.log) :
                            info.log[i].pass = "body1" /\ info.log[i].idx < info.log[b1].idx})
                        = m - 1
                     /\ info.modes[m]["n_live"] = IntOf(Lines[info.log[b1].idx][4])
                     /\ info.modes[m]["ln_Z"] = FloatOf(Lines[info.log[b2].idx][2])
        /\ NModes >= 2 =>
              ~snapshot(WithResume(Interleave(Lines, info.log, NModes)), tol, maxiter).ok

\* a snapshot of two modes was returned whose first mode has a branch pair
\* and whose bodies differ
C8_Witness ==
    /\ Returned
    /\ NModes >= 2
    /\ \/ info.modes[1]["branch_number"] > 0
       \/ info.modes[1]["ln_Z"] # info.modes[2]["ln_Z"]

-----------------------------------------------------------------------------
(* C4 *)

\* C4: a live.points event whose snapshot() call fails leaves the time
\* series, the counter, the WAITING flag and the last successful snapshot
\* unchanged, and the monitor goes on to the next event.
C4_FailedSnapshotIgnored ==
    [][EventFailed =>
          /\ pc' = "loop"
          /\ UNCHANGED <<time_data, ln_delta_data, unique_ln_delta_values,
                         WAITING, snap>>]_vars

\* the last event's snapshot() failed after an earlier one had succeeded
C4_Witness ==
    /\ pc = "loop"
    /\ Raised
    /\ snap # NoSnap
    /\ time_data # <<>>
    /\ n_events > Len(time_data)

-----------------------------------------------------------------------------
(* C2, C3, C9, C10: statements the code does not meet *)

Converged == snap # NoSnap /\ snap.global["stop"]

\* C2: once the last successful snapshot has global stop true, the monitor
\* reaches STOPPED; so it never halts anywhere else while it holds a
\* converged snapshot.
C2_ConvergedTerminates ==
    Converged => (pc = "stopped" \/ ENABLED Next)

\* C3: no exception escapes the watch loop.
C3_NeverCrashes == pc # "crashed"

\* C9: after 10 successful snapshots that each differ from the preceding
\* one the monitor is WARM, and after 1 to 9 of them it is still WAITING.
C9_WarmupThreshold ==
    /\ observed >= 10 => MonitorState \in {"WARM", "STOPPED"}
    /\ observed \in 1..9 => MonitorState = "WAITING"

\* C10: while WAITING, a successful snapshot adds 1 to the counter when its
\* ln_delta vector differs from that of the previous successful snapshot,
\* and 0 otherwise.
C10_CounterCountsDistinct ==
    [][(EventSucceeded /\ WAITING) =>
          unique_ln_delta_values' =
              unique_ln_delta_values
              + (IF snap # NoSnap /\ LnDeltaOf(snap') # LnDeltaOf(snap)
                 THEN 1 ELSE 0)]_vars

-----------------------------------------------------------------------------
(* C11 *)

\* C11: every live.points event whose snapshot() succeeds makes time_data
\* and ln_delta_data one longer each, and the new last element of
\* ln_delta_data is the sequence of the ln_delta values of the snapshot's
\* modes.
C11_SampleAppended ==
    [][EventSucceeded =>
          /\ Len(time_data') = Len(time_data) + 1
          /\ Len(ln_delta_data') = Len(ln_delta_data) + 1
          /\ ln_delta_data'[Len(ln_delta_data')] = LnDeltaOf(info')]_vars

-----------------------------------------------------------------------------
(* C12 *)

\* the three files are well formed, every mode is declared stopped with 2
\* live points (criterion 2) and n_rejected - n_live = 50
AnomalousConvergence ==
    /\ tol > 0 /\ maxiter > 0
    /\ \E n \in 0..MaxModes, spread \in {0, 1, 2},
          ln_Z \in {"0.0", "-1.0"} :
          files = Triplet(TwoPassLayout(HeaderRecs("55", n, "5"),
                              [m \in 1..n |-> BranchRecs("0")],
                              [m \in 1..n |-> BodyRecs("T", "2", "1.0", ln_Z, FALSE)],
                              n), n, spread)

\* C12: in every returned snapshot global stop is the conjunction of the
\* stop flags resume.dat declares for the modes; and a call on consistent
\* files whose modes are all declared stopped while n_rejected - n_live > 50
\* is false returns the snapshot, with stop true and stop_1b false.
C12_GlobalStop ==
    /\ Returned =>
          info.global["stop"] = (\A m \in 1..NModes : DeclaredStop(m))
    /\ (info # NoCall /\ AnomalousConvergence) =>
          /\ info.ok
          /\ info.global["stop"]
          /\ ~info.global["stop_1b"]

\* a snapshot of two converged modes was returned although stop_1b is false
C12_Witness ==
    /\ Returned
    /\ NModes >= 2
    /\ info.global["stop"]
    /\ ~info.global["stop_1b"]
    /\ \A m \in 1..NModes : DeclaredStop(m)

-----------------------------------------------------------------------------
(* C13 *)

\* C13: in every returned snapshot a mode with branch_number 0 has the
\* fields branch_unknown_1 and branch_unknown_2 with value null, and a mode
\* with branch_number > 0 has them set to the two tokens of the length-2
\* record that followed its branch_number record.
C13_BranchUnknown ==
    Returned =>
        \A m \in 1..NModes :
            /\ {"branch_unknown_1", "branch_unknown_2"} \subseteq DOMAIN info.modes[m]
            /\ IF info.modes[m]["branch_number"] = 0
               THEN /\ info.modes[m]["branch_unknown_1"] = None
                    /\ info.modes[m]["branch_unknown_2"] = None
               ELSE LET pair == Lines[info.log[LogPos(info, "branch_number", m)].idx + 1]
                    IN  /\ Len(pair) = 2
                        /\ info.modes[m]["branch_unknown_1"] = pair[1]
                        /\ info.modes[m]["branch_unknown_2"] = pair[2]

-----------------------------------------------------------------------------
(* C14 *)

\* mode m has a point in phys_live.points
HasLivePoint(m) ==
    \E i \in 1..Len(files.phys_live.rows) :
        files.phys_live.rows[i][Len(files.phys_live.rows[i])] = m

\* C14: in every returned snapshot each mode 1..n_modes has at least one
\* row of phys_live.points whose mode column equals it; a declared mode
\* without such a row makes snapshot() fail.
C14_ModeHasLivePoints ==
    Returned => \A m \in 1..NModes : HasLivePoint(m)

\* a call failed on files that are well formed but for the last declared
\* mode, which has no point in a 2-D phys_live.points
C14_Witness ==
    /\ Raised
    /\ info.error = "ValueError"
    /\ GoodHeader
    /\ TwoD(files.phys_live.rows) /\ ~Ragged(files.phys_live.rows)
    /\ IsInt(Lines[2][3]) /\ IntOf(Lines[2][3]) >= 2
    /\ Len(info.log) = Len(Lines) - 4
    /\ \A m \in 1..(IntOf(Lines[2][3]) - 1) : HasLivePoint(m)
    /\ ~HasLivePoint(IntOf(Lines[2][3]))

-----------------------------------------------------------------------------
(* C15 *)

\* the step leaves the watch loop through the convergence exit
Stops == pc = "loop" /\ pc' = "stopped"

\* C15: the monitor leaves the loop through the convergence exit only
\* when it is not WAITING, only on a tick that is no live.points event, and
\* only when the last successful snapshot has global stop true.
C15_StopsOnlyWarmAndConverged ==
    [][Stops =>
          /\ ~WAITING
          /\ n_events' = n_events
          /\ snap # NoSnap /\ snap.global["stop"]
          /\ snap' = snap]_vars

\* the monitor, WAITING with a converged last snapshot, has handled ticks
\* that were no live.points events and is still in the loop
C15_Witness ==
    /\ pc = "loop"
    /\ WAITING
    /\ Converged
    /\ info.ok
    /\ n_ticks >= 2

-----------------------------------------------------------------------------
(* C16 *)

\* C16: while WAITING, a tick that is no live.points event changes nothing:
\* no parse, no stop, no error, and the time series, the counter, the flag
\* and the last snapshot are as before.
C16_WaitingTickNoOp ==
    [][(pc = "loop" /\ WAITING /\ n_events' = n_events) =>
          /\ pc' = "loop"
          /\ UNCHANGED <<files, info, time_data, ln_delta_data,
                         unique_ln_delta_values, WAITING, snap>>]_vars

\* ticks were handled before any snapshot was ever produced, parses having
\* failed
C16_Witness ==
    /\ pc = "loop"
    /\ WAITING
    /\ snap = NoSnap
    /\ n_ticks >= 1
    /\ n_events >= 1
    /\ time_data = <<>>

-----------------------------------------------------------------------------
(* C17 *)

\* C17: every returned snapshot carries a boolean global ceff, for every
\* n_modes >= 0.
C17_CeffAlwaysPresent ==
    Returned =>
        /\ "ceff" \in DOMAIN info.global
        /\ info.global["ceff"] \in BOOLEAN

-----------------------------------------------------------------------------
(* C18 *)

\* C18: in every state of watch() time_data and ln_delta_data have the
\* same length.
C18_SeriesSameLength == Len(time_data) = Len(ln_delta_data)

-----------------------------------------------------------------------------
(* C19 *)

\* C19 as stated: the counter is at most the number of recorded samples
\* minus 1, and WAITING is false only if the counter is >= 10.
C19_CounterBelowSamples ==
    pc = "loop" =>
        /\ unique_ln_delta_values <= Len(ln_delta_data) - 1
        /\ ~WAITING => unique_ln_delta_values >= 10

\* C19, amended: once WAITING is false it stays false, the counter never
\* decreases, the counter is at most the number of recorded samples minus 1
\* or 0 when nothing is recorded yet, and WAITING is false only if the
\* counter is >= 10.
C19_WarmupMonotone ==
    /\ [](/\ unique_ln_delta_values <=
               (IF ln_delta_data = <<>> THEN 0 ELSE Len(ln_delta_data) - 1)
          /\ ~WAITING => unique_ln_delta_values >= 10)
    /\ [][/\ ~WAITING => ~WAITING'
          /\ unique_ln_delta_values' >= unique_ln_delta_values]_vars

\* three samples are recorded and the monitor is in the loop
C19_Witness ==
    /\ pc = "loop"
    /\ Len(ln_delta_data) >= 3
    /\ unique_ln_delta_values <= Len(ln_delta_data) - 1

====
